---------------------------- MODULE Spec2Model ----------------------------
(***************************************************************************)
(* A model of the BitString class of src/individ.py: a dataclass with the  *)
(* fields size (capacity), bits (a Python list) and count (logical         *)
(* length), its constructor (__post_init__), indexed access, set_count,    *)
(* the operators & | ^ ~, the two shifts and the XML round trip.           *)
(*                                                                         *)
(* A program holds its instances in variables.  Every operation of the     *)
(* class is one action; an operation that returns an instance binds it to  *)
(* a variable (possibly rebinding an operand's variable).  Python lists    *)
(* are mutable objects: an instance holds a reference to a list cell, so   *)
(* that sharing of a list between two instances can be expressed.          *)
(* Python's 0-based index i is position i + 1 of a TLA+ sequence.          *)
(* Arguments are integers / strings as the type hints say; the isinstance  *)
(* guards that raise TypeError on other types are not exercised.           *)
(***************************************************************************)
EXTENDS Integers, Sequences, FiniteSets, TLC

\* ------------------------------------------------------------------ bounds
\* The largest size / literal length / index / shift the inputs are drawn from, in
\* a program of one variable (MaxSize) and in a program of two (PairSize).
MaxSize == 3
PairSize == 1

\* BitString.MAX_SIZE
MAX_SIZE == 100

\* The program's variables that hold instances.
Vars == {"a", "b"}

None == "none"

\* ------------------------------------------------------------ Python lists
Min(a, b) == IF a < b THEN a ELSE b
Max(a, b) == IF a > b THEN a ELSE b

\* [0] * k
Zeros(k) == [i \in 1..Max(k, 0) |-> 0]

\* s[lo:hi] for 0 <= lo, 0 <= hi: the bounds are clamped to len(s).
Slice(s, lo, hi) == SubSeq(s, Min(lo, Len(s)) + 1, Min(hi, Len(s)))

\* s[lo:hi] = t  (slice assignment: the slice is replaced by t, whatever its length)
SliceAssign(s, lo, hi, t) ==
    Slice(s, 0, lo) \o t \o Slice(s, Max(lo, hi), Len(s))

\* [f(a, b) for a, b in zip(s, t)]: zip stops at the shorter list.
BitAnd(a, b) == IF a = 1 /\ b = 1 THEN 1 ELSE 0
BitOr(a, b) == IF a = 1 \/ b = 1 THEN 1 ELSE 0
BitXor(a, b) == IF a = b THEN 0 ELSE 1
ZipWith(kind, s, t) ==
    [i \in 1..Min(Len(s), Len(t)) |->
        CASE kind = "and" -> BitAnd(s[i], t[i])
          [] kind = "or"  -> BitOr(s[i], t[i])
          [] OTHER        -> BitXor(s[i], t[i])]

\* --------------------------------------------------------- str() and int()
DigitChars == <<"0", "1", "2", "3", "4", "5", "6", "7", "8", "9">>
IsDigit(c) == \E d \in 1..10 : DigitChars[d] = c
CharDigit(c) == (CHOOSE d \in 1..10 : DigitChars[d] = c) - 1

RECURSIVE NatToStr(_)
NatToStr(n) ==
    IF n < 10 THEN <<DigitChars[n + 1]>>
    ELSE Append(NatToStr(n \div 10), DigitChars[(n % 10) + 1])

\* str(n) of an int
IntToStr(n) == IF n < 0 THEN <<"-">> \o NatToStr(-n) ELSE NatToStr(n)

RECURSIVE DigitsToNat(_)
DigitsToNat(s) ==
    IF s = <<>> THEN 0
    ELSE 10 * DigitsToNat(SubSeq(s, 1, Len(s) - 1)) + CharDigit(s[Len(s)])

\* The text of an element that has none (ElementTree's None).
NoneText == <<"None">>

\* int(s) accepts an optional sign followed by decimal digits.
IsIntStr(s) ==
    /\ s # NoneText
    /\ LET body == IF s # <<>> /\ s[1] = "-" THEN Tail(s) ELSE s
       IN  body # <<>> /\ \A i \in 1..Len(body) : IsDigit(body[i])
StrToInt(s) ==
    IF s[1] = "-" THEN 0 - DigitsToNat(Tail(s)) ELSE DigitsToNat(s)

\* ''.join(str(bit) for bit in bits)
RECURSIVE JoinBits(_)
JoinBits(bits) ==
    IF bits = <<>> THEN <<>> ELSE IntToStr(Head(bits)) \o JoinBits(Tail(bits))

\* ------------------------------------------------ results of an operation
\* An operation ends with a value (err = None) or raises (err = the exception).
Ok(size, bits, count) ==
    [err |-> None, size |-> size, bits |-> bits, count |-> count]
Raise(e, self) ==
    [err |-> e, size |-> self.size, bits |-> self.bits, count |-> self.count]
NoInstance == [size |-> 0, bits |-> <<>>, count |-> 0]


\* ------------------------------------------------------ the class, as functions
\* An instance is a record [size, bits, count]; bits is the list's content.

\* BitString(size, bits, count) with an int size: the dataclass __init__ stores the
\* three fields and __post_init__ then overwrites bits and count when size > 0.
post_init(size, bits, count) ==
    IF size > 0
    THEN IF size > MAX_SIZE
         THEN Raise("ValueError", NoInstance)
         ELSE Ok(size, Zeros(size), size)
    ELSE Ok(size, bits, count)

\* BitString(s) with a str: the elif branch of __post_init__.
post_init_str(s) ==
    IF Len(s) > MAX_SIZE
    THEN Raise("ValueError", NoInstance)
    ELSE IF \E i \in 1..Len(s) : s[i] \notin {"0", "1"}
         THEN Raise("ValueError", NoInstance)
         ELSE Ok(Len(s), [i \in 1..Len(s) |-> CharDigit(s[i])], Len(s))

\* __getitem__: the value read, or IndexError.
getitem(self, index) ==
    IF index < 0 \/ index >= self.count
    THEN [err |-> "IndexError", value |-> 0]
    ELSE [err |-> None, value |-> self.bits[index + 1]]

\* __setitem__ as it would be with the value checked after the assignment.
setitem_write_first(self, index, value) ==
    IF index < 0 \/ index >= self.count
    THEN Raise("IndexError", self)
    ELSE IF value \notin {0, 1}
         THEN Raise("ValueError",
                    [self EXCEPT !.bits = [self.bits EXCEPT ![index + 1] = value]])
         ELSE Ok(self.size, [self.bits EXCEPT ![index + 1] = value], self.count)

\* __setitem__: the instance after the call.
setitem(self, index, value) ==
    IF index < 0 \/ index >= self.count
    THEN Raise("IndexError", self)
    ELSE IF value \notin {0, 1}
         THEN Raise("ValueError", self)
         ELSE Ok(self.size, [self.bits EXCEPT ![index + 1] = value], self.count)

\* set_count as it would be without the zero fill of the newly exposed slots.
set_count_no_fill(self, new_count) ==
    IF new_count < 0 \/ new_count > self.size
    THEN Raise("ValueError", self)
    ELSE Ok(self.size, self.bits, new_count)

\* set_count: the instance after the call.
set_count(self, new_count) ==
    IF new_count < 0 \/ new_count > self.size
    THEN Raise("ValueError", self)
    ELSE Ok(self.size,
            IF new_count > self.count
            THEN SliceAssign(self.bits, self.count, new_count,
                             Zeros(new_count - self.count))
            ELSE self.bits,
            new_count)

\* __and__, __or__, __xor__: the instance returned.
binop(kind, self, other) ==
    IF self.count # other.count
    THEN Raise("ValueError", NoInstance)
    ELSE post_init(self.count, ZipWith(kind, self.bits, other.bits), self.count)

\* __invert__
invert(self) ==
    post_init(self.size,
              [i \in 1..Len(Slice(self.bits, 0, self.count)) |-> 1 - self.bits[i]],
              self.count)

shift_left(self, n) ==
    IF n < 0
    THEN Raise("ValueError", NoInstance)
    ELSE IF n >= self.count
         THEN post_init(self.size, Zeros(self.count), self.count)
         ELSE post_init(self.size,
                        Slice(self.bits, n, self.count) \o Zeros(n), self.count)

shift_right(self, n) ==
    IF n < 0
    THEN Raise("ValueError", NoInstance)
    ELSE IF n >= self.count
         THEN post_init(self.size, Zeros(self.count), self.count)
         ELSE post_init(self.size,
                        Zeros(n) \o Slice(self.bits, 0, self.count - n), self.count)

\* ------------------------------------------------------------------- XML
\* A document <BitString><size>..</size><count>..</count><bits>..</bits></BitString>
\* is the record of the three elements' texts.  ElementTree writes an element whose
\* text is empty as <bits /> and reads such an element's text back as None.
ElementText(t) == IF t = <<>> THEN NoneText ELSE t

to_xml(self) ==
    [size  |-> ElementText(IntToStr(self.size)),
     count |-> ElementText(IntToStr(self.count)),
     bits  |-> ElementText(JoinBits(Slice(self.bits, 0, self.count)))]

NoDoc == [size |-> NoneText, count |-> NoneText, bits |-> NoneText]

\* from_xml: int(None) and iterating None raise TypeError, int() of a text that is
\* no number raises ValueError; then the two checks, then the constructor.
from_xml(doc) ==
    IF doc.size = NoneText THEN Raise("TypeError", NoInstance)
    ELSE IF ~IsIntStr(doc.size) THEN Raise("ValueError", NoInstance)
    ELSE IF doc.count = NoneText THEN Raise("TypeError", NoInstance)
    ELSE IF ~IsIntStr(doc.count) THEN Raise("ValueError", NoInstance)
    ELSE IF doc.bits = NoneText THEN Raise("TypeError", NoInstance)
    ELSE IF \E i \in 1..Len(doc.bits) : ~IsDigit(doc.bits[i])
         THEN Raise("ValueError", NoInstance)
    ELSE LET size  == StrToInt(doc.size)
             count == StrToInt(doc.count)
             bits  == [i \in 1..Len(doc.bits) |-> CharDigit(doc.bits[i])]
         IN  IF Len(bits) # count THEN Raise("ValueError", NoInstance)
             ELSE IF size < count THEN Raise("ValueError", NoInstance)
             ELSE post_init(size, bits, count)

\* ------------------------------------------------------------------ state
VARIABLES
    bound,    \* the variables that hold an instance
    objs,     \* variable -> [size, bits, count]; bits is a reference to a list cell
    heap,     \* list cell -> the list's content
    last      \* the last call: its arguments, its result, the exception it raised

vars == <<bound, objs, heap, last>>

\* The instance a variable holds in a state (o, h), its list dereferenced.
ViewOf(o, h, x) ==
    [size |-> o[x].size, bits |-> h[o[x].bits], count |-> o[x].count]
View(x) == ViewOf(objs, heap, x)

\* bits[:count], the digits the class prints and serialises.
Visible(v) == Slice(v.bits, 0, v.count)

\* op: the call; x, y: the receiver's and the other operand's variable; dst: the
\* variable the result is assigned to; n, v, lit: the arguments; old: the count before
\* a set_count; out: the document to_xml returned; rt: from_xml read that document;
\* prior: what the call before did to the receiver of a set / set_count ("result": an
\* operator returned it, "operand": an operator read it, its result held by another
\* variable); err: the exception raised.
NoCall ==
    [op |-> "init", x |-> None, y |-> None, dst |-> None, n |-> 0, v |-> 0,
     lit |-> <<>>, old |-> 0, rt |-> FALSE, out |-> NoDoc, prior |-> None,
     err |-> None]

Operators == {"and", "or", "xor", "not", "shl", "shr"}
Prior(x) ==
    IF last.op \in Operators /\ last.err = None /\ last.dst # last.x
                             /\ last.dst # last.y
    THEN IF last.dst = x THEN "result"
         ELSE IF x \in {last.x, last.y} THEN "operand" ELSE None
    ELSE None

Init ==
    /\ bound = {}
    /\ objs = [x \in Vars |-> [size |-> 0, bits |-> x, count |-> 0]]
    /\ heap = [c \in Vars |-> <<>>]
    /\ last = NoCall

\* ----------------------------------------------------------------- inputs
\* k is the largest size the inputs reach.
SizeInputs(k) == (-1..k) \cup {MAX_SIZE + 1}
IndexInputs(k) == -1..k
ValueInputs == {0, 1, 2}
CountInputs(k) == -1..(k + 1)
ShiftInputs(k) == -1..k

\* Literals: every string over "0", "1", "2" of length <= k, and one too long.
RECURSIVE StringsUpTo(_, _)
StringsUpTo(chars, k) ==
    IF k = 0 THEN {<<>>}
    ELSE LET shorter == StringsUpTo(chars, k - 1)
         IN  shorter \cup {Append(s, c) : s \in shorter, c \in chars}
TooLong == [i \in 1..(MAX_SIZE + 1) |-> "0"]
LiteralInputs(k) == StringsUpTo({"0", "1", "2"}, k) \cup {TooLong}

\* Documents that no to_xml call produced.
DocInputs(k) ==
    [size  : {IntToStr(k), IntToStr(MAX_SIZE + 1)},
     count : {IntToStr(1)},
     bits  : {NoneText, <<"1">>, <<"2">>, <<"a">>, <<"1", "1">>}]
    \cup {[size |-> <<"a">>, count |-> <<"1">>, bits |-> <<"1">>],
          [size |-> <<"0">>, count |-> <<"1">>, bits |-> <<"1">>],
          [size |-> <<"1">>, count |-> NoneText, bits |-> <<"1">>]}

\* ---------------------------------------------------------------- binding
\* A list the call creates is a new list: a cell no other variable's instance uses.
FreshCell(dst) ==
    IF \A y \in bound \ {dst} : objs[y].bits # dst
    THEN dst
    ELSE CHOOSE c \in Vars : \A y \in bound \ {dst} : objs[y].bits # c

\* dst = <the instance r a call returned>, or nothing when the call raised.
Bind(dst, r) ==
    IF r.err = None
    THEN LET c == FreshCell(dst)
         IN  /\ bound' = bound \cup {dst}
             /\ objs' = [objs EXCEPT ![dst] =
                            [size |-> r.size, bits |-> c, count |-> r.count]]
             /\ heap' = [heap EXCEPT ![c] = r.bits]
    ELSE UNCHANGED <<bound, objs, heap>>

\* The receiver's fields after a call that mutates it in place.
Store(x, r) ==
    /\ objs' = [objs EXCEPT ![x] = [size |-> r.size, bits |-> objs[x].bits,
                                     count |-> r.count]]
    /\ heap' = [heap EXCEPT ![objs[x].bits] = r.bits]
    /\ UNCHANGED bound

\* ---------------------------------------------------------------- actions
\* dst = BitString(n)
Construct(dst, n) ==
    LET r == post_init(n, <<>>, 0)
    IN  /\ Bind(dst, r)
        /\ last' = [NoCall EXCEPT !.op = "new", !.dst = dst, !.n = n, !.err = r.err]

\* dst = BitString(s)
ConstructStr(dst, s) ==
    LET r == post_init_str(s)
    IN  /\ Bind(dst, r)
        /\ last' = [NoCall EXCEPT !.op = "literal", !.dst = dst, !.lit = s,
                                  !.err = r.err]

\* x[index]
GetItem(x, index) ==
    LET r == getitem(View(x), index)
    IN  /\ x \in bound
        /\ UNCHANGED <<bound, objs, heap>>
        /\ last' = [NoCall EXCEPT !.op = "get", !.x = x, !.n = index,
                                  !.v = r.value, !.err = r.err]

\* x[index] = value
SetItem(x, index, value) ==
    LET r == setitem(View(x), index, value)
    IN  /\ x \in bound
        /\ Store(x, r)
        /\ last' = [NoCall EXCEPT !.op = "set", !.x = x, !.n = index,
                                  !.v = value, !.prior = Prior(x),
                                  !.err = r.err]

\* x.set_count(new_count)
SetCount(x, new_count) ==
    LET r == set_count(View(x), new_count)
    IN  /\ x \in bound
        /\ Store(x, r)
        /\ last' = [NoCall EXCEPT !.op = "set_count", !.x = x, !.n = new_count,
                                  !.old = objs[x].count, !.prior = Prior(x),
                                  !.err = r.err]

\* dst = x & y, dst = x | y, dst = x ^ y
BinOp(kind, x, y, dst) ==
    LET r == binop(kind, View(x), View(y))
    IN  /\ x \in bound /\ y \in bound
        /\ Bind(dst, r)
        /\ last' = [NoCall EXCEPT !.op = kind, !.x = x, !.y = y, !.dst = dst,
                                  !.err = r.err]
And(x, y, dst) == BinOp("and", x, y, dst)
Or(x, y, dst) == BinOp("or", x, y, dst)
Xor(x, y, dst) == BinOp("xor", x, y, dst)

\* dst = ~x
Invert(x, dst) ==
    LET r == invert(View(x))
    IN  /\ x \in bound
        /\ Bind(dst, r)
        /\ last' = [NoCall EXCEPT !.op = "not", !.x = x, !.dst = dst, !.err = r.err]

\* dst = x.shift_left(n) as it would be if a shift by 0 handed the receiver's own
\* list to the instance it returns.
ShiftLeftShared(x, n, dst) ==
    LET r == shift_left(View(x), n)
    IN  /\ x \in bound
        /\ IF r.err = None /\ n = 0
           THEN /\ bound' = bound \cup {dst}
                /\ objs' = [objs EXCEPT ![dst] =
                               [size |-> r.size, bits |-> objs[x].bits,
                                count |-> r.count]]
                /\ heap' = heap
           ELSE Bind(dst, r)
        /\ last' = [NoCall EXCEPT !.op = "shl", !.x = x, !.n = n, !.dst = dst,
                                  !.err = r.err]

\* dst = x.shift_left(n)
ShiftLeft(x, n, dst) ==
    LET r == shift_left(View(x), n)
    IN  /\ x \in bound
        /\ Bind(dst, r)
        /\ last' = [NoCall EXCEPT !.op = "shl", !.x = x, !.n = n, !.dst = dst,
                                  !.err = r.err]

\* dst = x.shift_right(n)
ShiftRight(x, n, dst) ==
    LET r == shift_right(View(x), n)
    IN  /\ x \in bound
        /\ Bind(dst, r)
        /\ last' = [NoCall EXCEPT !.op = "shr", !.x = x, !.n = n, !.dst = dst,
                                  !.err = r.err]

\* x.to_xml(): the document is the call's result.
ToXml(x) ==
    /\ x \in bound
    /\ UNCHANGED <<bound, objs, heap>>
    /\ last' = [NoCall EXCEPT !.op = "to_xml", !.x = x, !.out = to_xml(View(x))]

\* dst = BitString.from_xml(doc), doc being the document the last to_xml returned
\* (rt) or one from outside.
FromXmlDoc(dst, doc, rt) ==
    LET r == from_xml(doc)
    IN  /\ Bind(dst, r)
        /\ last' = [NoCall EXCEPT !.op = "from_xml", !.dst = dst, !.rt = rt,
                                  !.x = IF rt THEN last.x ELSE None,
                                  !.err = r.err]
FromXml(dst) ==
    /\ last.op = "to_xml"
    /\ FromXmlDoc(dst, last.out, TRUE)
FromXmlInput(dst, doc) == FromXmlDoc(dst, doc, FALSE)

\* The calls of a program whose variables are V, its inputs reaching size k.
NextOn(V, k) ==
    \/ \E dst \in V, n \in SizeInputs(k) : Construct(dst, n)
    \/ \E dst \in V, s \in LiteralInputs(k) : ConstructStr(dst, s)
    \/ \E x \in V, i \in IndexInputs(k) : GetItem(x, i)
    \/ \E x \in V, i \in IndexInputs(k), v \in ValueInputs : SetItem(x, i, v)
    \/ \E x \in V, m \in CountInputs(k) : SetCount(x, m)
    \/ \E x \in V, y \in V, dst \in V : And(x, y, dst)
    \/ \E x \in V, y \in V, dst \in V : Or(x, y, dst)
    \/ \E x \in V, y \in V, dst \in V : Xor(x, y, dst)
    \/ \E x \in V, dst \in V : Invert(x, dst)
    \/ \E x \in V, n \in ShiftInputs(k), dst \in V : ShiftLeft(x, n, dst)
    \/ \E x \in V, n \in ShiftInputs(k), dst \in V : ShiftRight(x, n, dst)
    \/ \E x \in V : ToXml(x)
    \/ \E dst \in V : FromXml(dst)
    \/ \E dst \in V, doc \in DocInputs(k) : FromXmlInput(dst, doc)

\* A program of one variable: every call on the instance it holds.
Next == NextOn({"a"}, MaxSize)
Spec == Init /\ [][Next]_vars

\* A program of two variables: two instances, each an operand or a result.  What a
\* literal or a document constructs, BitString(n) and x[i] = v construct too.
NextPair ==
    \/ \E dst \in Vars, n \in SizeInputs(PairSize) : Construct(dst, n)
    \/ \E x \in Vars, i \in IndexInputs(PairSize) : GetItem(x, i)
    \/ \E x \in Vars, i \in IndexInputs(PairSize), v \in ValueInputs : SetItem(x, i, v)
    \/ \E x \in Vars, m \in CountInputs(PairSize) : SetCount(x, m)
    \/ \E x \in Vars, y \in Vars, dst \in Vars : And(x, y, dst)
    \/ \E x \in Vars, y \in Vars, dst \in Vars : Or(x, y, dst)
    \/ \E x \in Vars, y \in Vars, dst \in Vars : Xor(x, y, dst)
    \/ \E x \in Vars, dst \in Vars : Invert(x, dst)
    \/ \E x \in Vars, n \in ShiftInputs(PairSize), dst \in Vars : ShiftLeft(x, n, dst)
    \/ \E x \in Vars, n \in ShiftInputs(PairSize), dst \in Vars : ShiftRight(x, n, dst)
    \/ \E x \in Vars : ToXml(x)
SpecPair == Init /\ [][NextPair]_vars

\* ------------------------------------------------------------- the claims
\* The instance a variable holds after the step.
ViewAfter(x) == ViewOf(objs', heap', x)

\* An instance as the data model describes it.
Valid(v) ==
    /\ 1 <= v.size /\ v.size <= MAX_SIZE
    /\ Len(v.bits) = v.size
    /\ 0 <= v.count /\ v.count <= v.size
    /\ \A i \in 1..Len(v.bits) : v.bits[i] \in {0, 1}

Unchanged(x) == ViewAfter(x) = View(x)

\* C1: to_xml followed by from_xml of the document it returned succeeds, for every
\* valid instance v, and yields v's capacity, v's length and v's visible digits.
C1_RoundTrip ==
    [][(last'.op = "from_xml" /\ last'.rt /\ Valid(View(last.x)))
        => /\ last'.err = None
           /\ ViewAfter(last'.dst).size = View(last.x).size
           /\ ViewAfter(last'.dst).count = View(last.x).count
           /\ Visible(ViewAfter(last'.dst)) = Visible(View(last.x))]_vars

\* C2: for two valid instances of equal length L, AND / OR / XOR return an instance
\* of capacity L and length L whose digit i is the AND / OR / XOR of the operands'
\* digits i, for every i < L.
C2_Elementwise ==
    [][(/\ last'.op \in {"and", "or", "xor"}
        /\ Valid(View(last'.x)) /\ Valid(View(last'.y))
        /\ View(last'.x).count = View(last'.y).count)
        => /\ last'.err = None
           /\ LET a == View(last'.x)
                  b == View(last'.y)
                  r == ViewAfter(last'.dst)
              IN  /\ r.size = a.count
                  /\ r.count = a.count
                  /\ Len(r.bits) >= a.count
                  /\ \A i \in 1..a.count :
                        r.bits[i] = CASE last'.op = "and" -> BitAnd(a.bits[i], b.bits[i])
                                      [] last'.op = "or"  -> BitOr(a.bits[i], b.bits[i])
                                      [] OTHER -> BitXor(a.bits[i], b.bits[i])]_vars

\* The visible digits the specification gives a shift by n >= 0.
ShiftedLeft(v, n) ==
    IF n >= v.count THEN Zeros(v.count)
    ELSE SubSeq(v.bits, n + 1, v.count) \o Zeros(n)
ShiftedRight(v, n) ==
    IF n >= v.count THEN Zeros(v.count)
    ELSE Zeros(n) \o SubSeq(v.bits, 1, v.count - n)

\* C3: shift_left(n) and shift_right(n), n >= 0, of a valid instance return an
\* instance of the same capacity and length whose visible digits are the operand's
\* shifted by n with zeros filled in (all zeros for n >= length).
C3_Shift ==
    [][(last'.op \in {"shl", "shr"} /\ last'.n >= 0 /\ Valid(View(last'.x)))
        => /\ last'.err = None
           /\ LET v == View(last'.x)
                  r == ViewAfter(last'.dst)
              IN  /\ r.size = v.size
                  /\ r.count = v.count
                  /\ Visible(r) = IF last'.op = "shl"
                                  THEN ShiftedLeft(v, last'.n)
                                  ELSE ShiftedRight(v, last'.n)]_vars

\* C4: NOT of a valid instance returns an instance of the same capacity and the same
\* length whose digit i is 1 - digit i of the operand, for every i < length; NOT of
\* the result has the operand's visible digits again.
C4_Not ==
    [][(last'.op = "not" /\ Valid(View(last'.x)))
        => /\ last'.err = None
           /\ LET v == View(last'.x)
                  r == ViewAfter(last'.dst)
              IN  /\ r.size = v.size
                  /\ r.count = v.count
                  /\ Visible(r) = [i \in 1..v.count |-> 1 - v.bits[i]]
                  /\ Visible(invert(r)) = Visible(v)]_vars

\* C5: BitString(n) succeeds exactly when 1 <= n <= MAX_SIZE, then with capacity n,
\* length n and all digits 0; otherwise it raises and no instance is produced.
C5_FromCapacity ==
    [][last'.op = "new"
        => /\ (last'.err = None) <=> (1 <= last'.n /\ last'.n <= MAX_SIZE)
           /\ last'.err = None =>
                 ViewAfter(last'.dst) =
                    [size |-> last'.n, bits |-> Zeros(last'.n), count |-> last'.n]
           /\ last'.err # None =>
                 /\ last'.err = "ValueError"
                 /\ UNCHANGED <<bound, objs, heap>>]_vars

\* C6: BitString(s) succeeds exactly when 1 <= len(s) <= MAX_SIZE and every
\* character of s is '0' or '1', then with capacity = length = len(s) and the digits
\* the characters in order; otherwise it raises and no instance is produced.
C6_FromLiteral ==
    [][last'.op = "literal"
        => LET s == last'.lit
           IN  /\ (last'.err = None) <=>
                     /\ 1 <= Len(s) /\ Len(s) <= MAX_SIZE
                     /\ \A i \in 1..Len(s) : s[i] \in {"0", "1"}
               /\ last'.err = None =>
                     ViewAfter(last'.dst) =
                        [size |-> Len(s),
                         bits |-> [i \in 1..Len(s) |-> IF s[i] = "1" THEN 1 ELSE 0],
                         count |-> Len(s)]
               /\ last'.err # None =>
                     /\ last'.err = "ValueError"
                     /\ UNCHANGED <<bound, objs, heap>>]_vars

\* C7: set_count(m) with length < m <= capacity sets exactly digits[length..m) to 0,
\* leaves every other digit as it was and makes length = m; set_count(m) with
\* 0 <= m <= length changes the length only.  (After a shrink and a grow every
\* re-exposed position therefore reads 0.)
C7_SetCount ==
    [][(/\ last'.op = "set_count"
        /\ 0 <= last'.n /\ last'.n <= View(last'.x).size)
        => LET v == View(last'.x)
               r == ViewAfter(last'.x)
               m == last'.n
           IN  /\ last'.err = None
               /\ r.size = v.size
               /\ r.count = m
               /\ Len(r.bits) = Len(v.bits)
               /\ \A i \in 1..Len(v.bits) :
                     r.bits[i] = IF v.count < i /\ i <= m THEN 0 ELSE v.bits[i]]_vars

\* A grow after a shrink: the re-exposed digit reads 0 between a digit that stayed
\* visible and one that is still hidden, both 1 as they were set.
C7_Witness ==
    /\ last.op = "set_count" /\ last.err = None
    /\ last.old = 1 /\ last.n = 2
    /\ View("a") = [size |-> 3, bits |-> <<1, 0, 1>>, count |-> 2]

\* C8: a call that raises leaves every instance as it was, and these calls raise:
\* set(i, v) with i outside [0, length) or v not 0 or 1, get(i) with i outside
\* [0, length), set_count(m) with m outside [0, capacity], AND / OR / XOR of operands
\* of unequal length, a shift by a negative amount.
C8_FailureAtomic ==
    [][/\ last'.err # None => UNCHANGED <<bound, objs, heap>>
       /\ (last'.op = "set" /\ (last'.n < 0 \/ last'.n >= View(last'.x).count
                                \/ last'.v \notin {0, 1})) => last'.err # None
       /\ (last'.op = "get" /\ (last'.n < 0 \/ last'.n >= View(last'.x).count))
             => last'.err # None
       /\ (last'.op = "set_count" /\ (last'.n < 0 \/ last'.n > View(last'.x).size))
             => last'.err # None
       /\ (last'.op \in {"and", "or", "xor"}
             /\ View(last'.x).count # View(last'.y).count) => last'.err # None
       /\ (last'.op \in {"shl", "shr"} /\ last'.n < 0) => last'.err # None]_vars

\* An operator has raised on operands of unequal length, one of them holding a 1.
C8_Witness ==
    /\ last.op \in {"and", "or", "xor"} /\ last.err = "ValueError"
    /\ last.x # last.y
    /\ View(last.x).count = 1 /\ View(last.x).bits = <<1>>
    /\ View(last.y).count = 0

\* C9: every instance has 1 <= capacity <= MAX_SIZE, exactly capacity digit slots,
\* 0 <= length <= capacity and digits that are 0 or 1, and the capacity of an
\* instance does not change (a variable that is not assigned keeps its capacity).
C9_Invariants ==
    [][/\ \A x \in bound' : Valid(ViewAfter(x))
       /\ \A x \in bound : x # last'.dst => ViewAfter(x).size = View(x).size]_vars

\* C10: the operators and to_xml change no operand, and a set or set_count on one
\* instance changes no other instance; no two instances share a list.
C10_Independent ==
    [][/\ last'.op \in Operators \cup {"to_xml"}
             => \A y \in bound \ {last'.dst} : Unchanged(y)
       /\ last'.op \in {"set", "set_count"}
             => \A y \in bound \ {last'.x} : Unchanged(y)
       /\ \A y \in bound', z \in bound' : y # z => objs'[y].bits # objs'[z].bits]_vars

\* A digit of an operator's result has been set to 1 while the operand, still held
\* by the other variable, reads 0 there.
C10_Witness ==
    /\ last.op = "set" /\ last.err = None /\ last.prior = "result"
    /\ \E y \in bound \ {last.x} :
          /\ View(y).count > last.n
          /\ View(y).bits[last.n + 1] = 0
          /\ View(last.x).bits[last.n + 1] = 1

=============================================================================
